---- MODULE Spec2Model ----
(***************************************************************************)
(* A state-machine model of chroma_learning.py: template generation,       *)
(* dataset preparation, the mini-batch shuffler, the interruptible         *)
(* training loop and the final parameter save.                             *)
(*                                                                         *)
(* Arrays are 0-based in the source.  Sequences here are 1-based, so the   *)
(* source's a[i] is written At(a, i).  12-element chroma vectors are       *)
(* functions over 0..11 and keep the source's indices.                     *)
(***************************************************************************)
EXTENDS Integers, Sequences, FiniteSets

\* ------------------------------------------------------------------ bounds
MaxRows == 2        \* rows in the label file
MaxSamples == 3     \* rows of a dataset handed to data_shuffler directly,
                    \* with a batch_size of 1..MaxSamples + 1
MaxPulls == 3       \* batches pulled from such a generator
MaxBatch == 2       \* --batch_size ranges over 1..MaxBatch
MaxIter == 2        \* --max_iterations ranges over 0..MaxIter

\* --------------------------------------------------------------- constants
NumRoots == 12      \* range(12), np.arange(12), % 12, / 12

\* Raw label names of the label file, and the integers a label map may give
\* them: the -1 sentinel, 0, a value that is no multiple of 12, and 12.
LabelNames == {"a", "b"}
MapValues == {-1, 0, 5, 12}
LabelMaps == UNION {[D -> MapValues] : D \in SUBSET LabelNames}

\* CT.QUALITIES: the ordered quality vocabulary (docstring of
\* generate_chroma_templates).
QUALITIES ==
    <<"maj", "min", "maj7", "min7", "7", "maj6", "min6",
      "dim", "aug", "sus4", "sus2", "hdim7", "dim7">>

\* CT.QUALITY_MAP: quality name -> string of 12 membership bits, written here
\* as the tuple of its characters.
QUALITY_MAP ==
    [q \in {QUALITIES[i] : i \in 1..Len(QUALITIES)} |->
        CASE q = "maj"   -> <<"1","0","0","0","1","0","0","1","0","0","0","0">>
          [] q = "min"   -> <<"1","0","0","1","0","0","0","1","0","0","0","0">>
          [] q = "maj7"  -> <<"1","0","0","0","1","0","0","1","0","0","0","1">>
          [] q = "min7"  -> <<"1","0","0","1","0","0","0","1","0","0","1","0">>
          [] q = "7"     -> <<"1","0","0","0","1","0","0","1","0","0","1","0">>
          [] q = "maj6"  -> <<"1","0","0","0","1","0","0","1","0","1","0","0">>
          [] q = "min6"  -> <<"1","0","0","1","0","0","0","1","0","1","0","0">>
          [] q = "dim"   -> <<"1","0","0","1","0","0","1","0","0","0","0","0">>
          [] q = "aug"   -> <<"1","0","0","0","1","0","0","0","1","0","0","0">>
          [] q = "sus4"  -> <<"1","0","0","0","0","1","0","1","0","0","0","0">>
          [] q = "sus2"  -> <<"1","0","1","0","0","0","0","1","0","0","0","0">>
          [] q = "hdim7" -> <<"1","0","0","1","0","0","1","0","0","0","1","0">>
          [] q = "dim7"  -> <<"1","0","0","1","0","0","1","0","0","1","0","0">>]

\* ----------------------------------------------------------------- helpers
\* a[i] of a 0-based array held as a sequence.
At(a, i) == a[i + 1]

\* a[mask]: boolean-mask indexing, keeping the order of the kept rows.
RECURSIVE BoolIndex(_, _)
BoolIndex(a, mask) ==
    IF a = <<>> THEN <<>>
    ELSE LET rest == BoolIndex(Tail(a), Tail(mask))
         IN  IF Head(mask) THEN <<Head(a)>> \o rest ELSE rest

\* a.max() of a non-empty integer array.
ArrayMax(a) == CHOOSE m \in {a[i] : i \in 1..Len(a)} :
                   \A i \in 1..Len(a) : a[i] <= m

\* int(v) of one character of a membership string.
IntOfChar(c) == IF c = "1" THEN 1 ELSE 0

\* Sum of a 12-element vector.
RECURSIVE SumTo(_, _)
SumTo(v, n) == IF n < 0 THEN 0 ELSE v[n] + SumTo(v, n - 1)

\* CT.lp_norm(x, 1.0): every row divided by its L1 norm.  An entry is kept as
\* the exact fraction num/den.
lp_norm(rows) ==
    [i \in 1..Len(rows) |->
        [p \in 0..(NumRoots - 1) |->
            [num |-> rows[i][p], den |-> SumTo(rows[i], NumRoots - 1)]]]

\* np.array([int(v) for v in CT.QUALITY_MAP[quality]])
QualArray(quality) ==
    [p \in 0..(NumRoots - 1) |-> IntOfChar(At(QUALITY_MAP[quality], p))]

\* qual_array[(position_idx + root_idx) % 12]: the rotation turned the
\* wrong way round.
RotateTowardsZero(qual_array, root_idx) ==
    [p \in 0..(NumRoots - 1) |-> qual_array[(p + root_idx) % NumRoots]]

\* qual_array[(position_idx - root_idx) % 12]
Rotate(qual_array, root_idx) ==
    [p \in 0..(NumRoots - 1) |-> qual_array[(p - root_idx) % NumRoots]]

\* np.ones(12)
Ones == [p \in 0..(NumRoots - 1) |-> 1]

\* y_true > 0, elementwise.
ValidMask(y) == [i \in 1..Len(y) |-> y[i] > 0]

\* label_map.get(l, -1)
MapGet(m, l) == IF l \in DOMAIN m THEN m[l] ELSE -1

\* int(y_true.max() / 12): Python 2 integer division.
InferNumQualities(max_label) == max_label \div NumRoots

\* The update rules built over every shared variable, mu and sigma included.
UpdatedParamsWithStats == {"weights0", "bias0", "mu", "sigma"}

\* The keys of the updates dictionary: the parameters the step function
\* rewrites.
UpdatedParams == {"weights0", "bias0"}

\* The keys of network_params as returned: the trainable parameters plus mu
\* and sigma.
ParamNames == {"weights0", "bias0", "mu", "sigma"}

\* A shared variable's value: what it was last set from (src, over) and how
\* many gradient updates it has received since.
SharedValue(src, over) == [src |-> src, over |-> over, upd |-> 0]

\* The shared variables as build_chroma_transform creates them.
InitialParams ==
    [n \in ParamNames |->
        CASE n = "weights0" -> SharedValue("normal", <<>>)
          [] n = "bias0"    -> SharedValue("zeros", <<>>)
          [] n = "mu"       -> SharedValue("zeros", <<>>)
          [] n = "sigma"    -> SharedValue("ones", <<>>)]

\* ApplyUpdates with every update applied twice per call.
ApplyUpdatesTwice(p, names) ==
    [n \in DOMAIN p |-> IF n \in names THEN [p[n] EXCEPT !.upd = @ + 2] ELSE p[n]]

\* updates[param] = param - eta * gparam, applied to the parameters in names.
ApplyUpdates(p, names) ==
    [n \in DOMAIN p |-> IF n \in names THEN [p[n] EXCEPT !.upd = @ + 1] ELSE p[n]]

\* {'mu': data.mean(axis=0), 'sigma': data.std(axis=0)}
Stats(d) == [mu |-> SharedValue("mean", d), sigma |-> SharedValue("std", d)]

\* CT.cqt_pool(data): a row-wise pooling of the retained rows.
cqt_pool(d) == [i \in 1..Len(d) |-> [pooled |-> d[i]]]

\* All bijections of 1..n.
Perms(n) == {f \in [1..n -> 1..n] : \A i, j \in 1..n : f[i] = f[j] => i = j}

\* A shuffle that draws every position independently (with replacement).
ShuffleWithReplacement(s) == [1..Len(s) -> {s[i] : i \in 1..Len(s)}]

\* np.random.shuffle(sample_idx): every reordering of the array's entries.
Shuffle(s) == {[i \in 1..Len(s) |-> s[pi[i]]] : pi \in Perms(Len(s))}

\* read_ptr > num_samples: the reshuffle test off by one.
NeedsShuffleLate(ptr, num_samples) == ptr > num_samples

\* read_ptr >= num_samples
NeedsShuffle(ptr, num_samples) == ptr >= num_samples

\* train_loss returned whole, with the unused entries np.zeros left.
SliceNone(a, n) == a

\* train_loss[:n_iter]
SliceTo(a, n) == SubSeq(a, 1, n)

\* np.zeros(n)
Zeros(n) == [i \in 1..n |-> 0]

\* np.arange(n)
Arange(n) == [i \in 1..n |-> i - 1]

\* ------------------------------------------------------------------- state
VARIABLES
    pc,             \* position of main and of the functions it calls
    exc,            \* the exception that ended the run, "" while there is none
    labels,         \* np.load(label_file): the raw labels, one per row
    label_map,      \* CT.load_label_map(args.label_map)
    batch_size,     \* args.batch_size
    max_iterations, \* args.max_iterations
    data,           \* prepare_training_data: data
    y_true,         \* prepare_training_data: y_true
    stats,          \* prepare_training_data: stats
    num_qualities,  \* generate_chroma_templates: num_qualities
    templates,      \* generate_chroma_templates: templates
    qual_idx,       \* generate_chroma_templates: qual_idx
    root_idx,       \* generate_chroma_templates: root_idx
    shuffler,       \* the generator main holds: "none", "created", "started"
    sh_data,        \* data_shuffler: data
    sh_labels,      \* data_shuffler: labels
    sample_idx,     \* data_shuffler: sample_idx
    read_ptr,       \* data_shuffler: read_ptr
    x_m,            \* data_shuffler: x_m
    y_m,            \* data_shuffler: y_m
    batch,          \* train_network: (x_m, y_m) as pulled
    train_loss,     \* train_network: train_loss
    n_iter,         \* train_network: n_iter
    caught_at,      \* train_network: where the try block was when the except
                    \* branch was taken, "" while it has not been
    loss,           \* main: loss
    params,         \* the shared variables, by name
    saved,          \* the pickled param_values, <<>> while nothing is written
    epoch,          \* history: the indices drawn since the last reshuffle
    shuffles,       \* history: number of np.random.shuffle calls
    pulls,          \* history: number of batches yielded
    sets,           \* history: number of set_value calls, by parameter
    saves           \* history: number of save_parameters calls

vars == <<pc, exc, labels, label_map, batch_size, max_iterations, data, y_true,
          stats, num_qualities, templates, qual_idx, root_idx, shuffler,
          sh_data, sh_labels, sample_idx, read_ptr, x_m, y_m, batch,
          train_loss, n_iter, caught_at, loss, params, saved, epoch,
          shuffles, pulls, sets, saves>>

inputVars == <<labels, label_map, batch_size, max_iterations>>
prepVars == <<data, y_true, stats>>
genVars == <<num_qualities, templates, qual_idx, root_idx>>
shVars == <<shuffler, sh_data, sh_labels, sample_idx, read_ptr, x_m, y_m,
            epoch, shuffles>>
trainVars == <<batch, train_loss, n_iter, caught_at, loss, pulls>>
paramVars == <<params, sets>>
saveVars == <<saved, saves>>

\* Sequences over S of length at most n.
SeqUpTo(S, n) == UNION {[1..k -> S] : k \in 0..n}

\* Everything but the inputs and the position, as it is when main starts
\* (build_chroma_transform has run).
Blank ==
    /\ exc = ""
    /\ data = <<>> /\ y_true = <<>> /\ stats = <<>>
    /\ templates = <<>> /\ qual_idx = 0 /\ root_idx = 0
    /\ shuffler = "none"
    /\ sh_data = <<>> /\ sh_labels = <<>> /\ sample_idx = <<>> /\ read_ptr = 0
    /\ x_m = <<>> /\ y_m = <<>> /\ batch = <<>>
    /\ train_loss = <<>> /\ n_iter = 0 /\ caught_at = "" /\ loss = <<>>
    /\ params = InitialParams
    /\ saved = <<>>
    /\ epoch = <<>> /\ shuffles = 0 /\ pulls = 0
    /\ sets = [n \in ParamNames |-> 0]
    /\ saves = 0

\* main is entered with the command line's arguments and the files' contents.
Init ==
    /\ pc = "prepare"
    /\ labels \in SeqUpTo(LabelNames, MaxRows)
    /\ label_map \in LabelMaps
    /\ batch_size \in 1..MaxBatch
    /\ max_iterations \in 0..MaxIter
    /\ num_qualities = 0
    /\ Blank

\* generate_chroma_templates is entered with any supported quality count.
InitTemplates ==
    /\ pc = "gen"
    /\ labels = <<>>
    /\ label_map = <<>>
    /\ batch_size = 1
    /\ max_iterations = 0
    /\ num_qualities \in 0..Len(QUALITIES)
    /\ Blank

\* data_shuffler(data, labels, batch_size) is created over any dataset of
\* 1..MaxSamples rows, row i with the template of major root i as its target,
\* and is pulled from by train_network's loop.
InitShuffler ==
    /\ pc = "while"
    /\ exc = ""
    /\ labels = <<>>
    /\ label_map = <<>>
    /\ batch_size \in 1..(MaxSamples + 1)
    /\ max_iterations \in 0..MaxPulls
    /\ num_qualities = 0
    /\ data = <<>> /\ y_true = <<>> /\ stats = <<>>
    /\ templates = <<>> /\ qual_idx = 0 /\ root_idx = 0
    /\ shuffler = "created"
    /\ \E n \in 1..MaxSamples :
          /\ sh_data = cqt_pool([i \in 1..n |-> i])
          /\ sh_labels =
                [i \in 1..n |-> lp_norm(<<Rotate(QualArray("maj"), i)>>)[1]]
    /\ sample_idx = <<>> /\ read_ptr = 0
    /\ x_m = <<>> /\ y_m = <<>> /\ batch = <<>>
    /\ train_loss = Zeros(max_iterations)
    /\ n_iter = 0 /\ caught_at = "" /\ loss = <<>>
    /\ params = InitialParams
    /\ saved = <<>>
    /\ epoch = <<>> /\ shuffles = 0 /\ pulls = 0
    /\ sets = [n \in ParamNames |-> 0]
    /\ saves = 0

Raise(e) == pc' = "raised" /\ exc' = e

\* ------------------------------------------------- prepare_training_data
\* np.load, the label lookup and the boolean-mask filter.
LoadAndFilter ==
    /\ pc = "prepare"
    /\ LET mapped == [i \in 1..Len(labels) |-> MapGet(label_map, labels[i])]
           valid_idx == ValidMask(mapped)
       IN  /\ data' = BoolIndex([i \in 1..Len(labels) |-> i], valid_idx)
           /\ y_true' = BoolIndex(mapped, valid_idx)
    /\ pc' = "pool"
    /\ UNCHANGED <<exc, stats, inputVars, genVars, shVars, trainVars, paramVars,
                   saveVars>>

\* PoolAndStats with a maximum that gives 0 for an empty array instead of
\* raising.
PoolAndStatsMaxOfEmptyIsZero ==
    /\ pc = "pool"
    /\ data' = cqt_pool(data)
    /\ stats' = Stats(data')
    /\ num_qualities' = IF y_true = <<>> THEN 0
                        ELSE InferNumQualities(ArrayMax(y_true))
    /\ templates' = <<>>
    /\ qual_idx' = 0
    /\ root_idx' = 0
    /\ pc' = "gen"
    /\ exc' = exc
    /\ UNCHANGED <<y_true, inputVars, shVars, trainVars, paramVars, saveVars>>

\* cqt_pool, the statistics, and the quality count from y_true.max(), which
\* raises ValueError on an empty array.
PoolAndStats ==
    /\ pc = "pool"
    /\ data' = cqt_pool(data)
    /\ stats' = Stats(data')
    /\ IF y_true = <<>>
       THEN /\ Raise("ValueError: y_true.max()")
            /\ UNCHANGED genVars
       ELSE /\ num_qualities' = InferNumQualities(ArrayMax(y_true))
            /\ templates' = <<>>
            /\ qual_idx' = 0
            /\ root_idx' = 0
            /\ pc' = "gen"
            /\ exc' = exc
    /\ UNCHANGED <<y_true, inputVars, shVars, trainVars, paramVars, saveVars>>

\* --------------------------------------------- generate_chroma_templates
\* One pass of the inner loop: the quality's bit vector rotated to one root.
AppendTemplate ==
    /\ pc = "gen"
    /\ qual_idx < num_qualities
    /\ IF qual_idx >= Len(QUALITIES)
       THEN /\ Raise("IndexError: CT.QUALITIES[qual_idx]")
            /\ UNCHANGED genVars
       ELSE /\ templates' =
                Append(templates, Rotate(QualArray(At(QUALITIES, qual_idx)), root_idx))
            /\ IF root_idx + 1 < NumRoots
               THEN root_idx' = root_idx + 1 /\ qual_idx' = qual_idx
               ELSE root_idx' = 0 /\ qual_idx' = qual_idx + 1
            /\ num_qualities' = num_qualities
            /\ pc' = pc
            /\ exc' = exc
    /\ UNCHANGED <<inputVars, prepVars, shVars, trainVars, paramVars, saveVars>>

\* The loops are over: the all-ones row is appended and the normalised array
\* returned.
ReturnTemplates ==
    /\ pc = "gen"
    /\ qual_idx >= num_qualities
    /\ templates' = lp_norm(Append(templates, Ones))
    /\ pc' = "bind"
    /\ UNCHANGED <<exc, num_qualities, qual_idx, root_idx, inputVars, prepVars,
                   shVars, trainVars, paramVars, saveVars>>

\* ------------------------------------ prepare_training_data, its last line
\* templates[y_true] raises IndexError when a label is no index of templates;
\* otherwise the generator is created over the rows and their targets.  A
\* generator's body does not run before the first next().
BindAndReturn ==
    /\ pc = "bind"
    /\ IF \E i \in 1..Len(y_true) : y_true[i] >= Len(templates)
       THEN /\ Raise("IndexError: templates[y_true]")
            /\ UNCHANGED <<shuffler, sh_data, sh_labels>>
       ELSE /\ sh_data' = data
            /\ sh_labels' = [i \in 1..Len(y_true) |-> At(templates, y_true[i])]
            /\ shuffler' = "created"
            /\ pc' = "set_stats"
            /\ exc' = exc
    /\ UNCHANGED <<sample_idx, read_ptr, x_m, y_m, epoch, shuffles, inputVars,
                   prepVars, genVars, trainVars, paramVars, saveVars>>

\* -------------------------------------------------------------------- main
\* for name in ['mu', 'sigma']: params[name].set_value(stats[name])
SetStats ==
    /\ pc = "set_stats"
    /\ params' = [params EXCEPT !["mu"] = stats.mu, !["sigma"] = stats.sigma]
    /\ sets' = [sets EXCEPT !["mu"] = @ + 1, !["sigma"] = @ + 1]
    /\ pc' = "train_init"
    /\ UNCHANGED <<exc, inputVars, prepVars, genVars, shVars, trainVars, saveVars>>

\* ----------------------------------------------------------- train_network
\* train_loss = np.zeros(num_iterations); n_iter = 0
TrainInit ==
    /\ pc = "train_init"
    /\ train_loss' = Zeros(max_iterations)
    /\ n_iter' = 0
    /\ pc' = "while"
    /\ UNCHANGED <<exc, batch, caught_at, loss, pulls, inputVars, prepVars,
                   genVars, shVars, paramVars, saveVars>>

\* The loop test.  When it holds, shuffler.next() is called: the first call
\* runs the generator's head, every call starts an empty batch.
While ==
    /\ pc = "while"
    /\ IF n_iter < max_iterations
       THEN /\ pc' = "draw"
            /\ shuffler' = "started"
            /\ IF shuffler = "created"
               THEN /\ sample_idx' = Arange(Len(sh_data))
                    /\ read_ptr' = Len(sh_data)
               ELSE UNCHANGED <<sample_idx, read_ptr>>
            /\ x_m' = <<>>
            /\ y_m' = <<>>
       ELSE /\ pc' = "return"
            /\ UNCHANGED <<shuffler, sample_idx, read_ptr, x_m, y_m>>
    /\ UNCHANGED <<exc, sh_data, sh_labels, epoch, shuffles, inputVars, prepVars,
                   genVars, trainVars, paramVars, saveVars>>

\* ----------------------------------------------------------- data_shuffler
\* One pass of the inner loop: reshuffle if the read pointer is at the end,
\* then append one row and its target and advance the pointer.
Draw ==
    /\ pc = "draw"
    /\ Len(x_m) < batch_size
    /\ LET num_samples == Len(sh_data)
           reshuffle == NeedsShuffle(read_ptr, num_samples)
       IN  \E idx \in (IF reshuffle THEN Shuffle(sample_idx) ELSE {sample_idx}) :
             LET ptr == IF reshuffle THEN 0 ELSE read_ptr
             IN  /\ sample_idx' = idx
                 /\ shuffles' = IF reshuffle THEN shuffles + 1 ELSE shuffles
                 /\ IF ptr >= num_samples
                    THEN /\ Raise("IndexError: sample_idx[read_ptr]")
                         /\ read_ptr' = ptr
                         /\ UNCHANGED <<x_m, y_m, epoch>>
                    ELSE /\ x_m' = Append(x_m, At(sh_data, At(idx, ptr)))
                         /\ y_m' = Append(y_m, At(sh_labels, At(idx, ptr)))
                         /\ read_ptr' = ptr + 1
                         /\ epoch' = IF reshuffle THEN <<At(idx, ptr)>>
                                     ELSE Append(epoch, At(idx, ptr))
                         /\ pc' = pc
                         /\ exc' = exc
    /\ UNCHANGED <<shuffler, sh_data, sh_labels, inputVars, prepVars, genVars,
                   trainVars, paramVars, saveVars>>

\* yield np.array(x_m), np.array(y_m), received by train_network.
Yield ==
    /\ pc = "draw"
    /\ Len(x_m) >= batch_size
    /\ batch' = [x |-> x_m, y |-> y_m]
    /\ pulls' = pulls + 1
    /\ pc' = "step"
    /\ UNCHANGED <<exc, train_loss, n_iter, caught_at, loss, inputVars,
                   prepVars, genVars, shVars, paramVars, saveVars>>

\* ----------------------------------------------------------- train_network
\* train_loss[n_iter] = objective_fx(x_m, y_m, learning_rate): the compiled
\* function applies its updates and returns the batch loss, kept here as the
\* ordinal of the iteration (never 0, the value np.zeros leaves).
Step ==
    /\ pc = "step"
    /\ params' = ApplyUpdates(params, UpdatedParams)
    /\ train_loss' = [train_loss EXCEPT ![n_iter + 1] = n_iter + 1]
    /\ pc' = "inc"
    /\ UNCHANGED <<exc, batch, n_iter, caught_at, loss, pulls, sets, inputVars,
                   prepVars, genVars, shVars, saveVars>>

\* The progress line and n_iter += 1.
Inc ==
    /\ pc = "inc"
    /\ n_iter' = n_iter + 1
    /\ pc' = "while"
    /\ UNCHANGED <<exc, batch, train_loss, caught_at, loss, pulls, inputVars,
                   prepVars, genVars, shVars, paramVars, saveVars>>

\* except KeyboardInterrupt: the signal is raised wherever the try block is
\* executing.  Raised while objective_fx runs, it leaves any part of the
\* updates applied (none before the call, all when the call has returned and
\* its loss is not stored yet).
Interrupt ==
    /\ pc \in {"while", "draw", "step", "inc"}
    /\ caught_at' = pc
    /\ pc' = "return"
    /\ IF pc = "step"
       THEN \E applied \in SUBSET UpdatedParams :
                params' = ApplyUpdates(params, applied)
       ELSE params' = params
    /\ UNCHANGED <<exc, batch, train_loss, n_iter, loss, pulls, sets, inputVars,
                   prepVars, genVars, shVars, saveVars>>

\* The signal arriving in train_network outside the try block is not caught
\* and ends main.
InterruptUncaught ==
    /\ pc \in {"train_init", "return"}
    /\ Raise("KeyboardInterrupt")
    /\ UNCHANGED <<inputVars, prepVars, genVars, shVars, trainVars, paramVars,
                   saveVars>>

\* return train_loss[:n_iter], assigned to loss in main.
Return ==
    /\ pc = "return"
    /\ loss' = SliceTo(train_loss, n_iter)
    /\ pc' = "final"
    /\ UNCHANGED <<exc, batch, train_loss, n_iter, caught_at, pulls, inputVars,
                   prepVars, genVars, shVars, paramVars, saveVars>>

\* -------------------------------------------------------------------- main
\* print "Final Loss: %s" % loss[-1]: IndexError on an empty array.
FinalPrint ==
    /\ pc = "final"
    /\ IF loss = <<>>
       THEN Raise("IndexError: loss[-1]")
       ELSE pc' = "save" /\ exc' = exc
    /\ UNCHANGED <<inputVars, prepVars, genVars, shVars, trainVars, paramVars,
                   saveVars>>

\* save_parameters: get_value() of every entry of params, pickled.
SaveParameters ==
    /\ pc = "save"
    /\ saved' = [n \in DOMAIN params |-> params[n]]
    /\ saves' = saves + 1
    /\ pc' = "done"
    /\ UNCHANGED <<exc, inputVars, prepVars, genVars, shVars, trainVars, paramVars>>

Next ==
    \/ LoadAndFilter
    \/ PoolAndStats
    \/ AppendTemplate
    \/ ReturnTemplates
    \/ BindAndReturn
    \/ SetStats
    \/ TrainInit
    \/ While
    \/ Draw
    \/ Yield
    \/ Step
    \/ Inc
    \/ Interrupt
    \/ InterruptUncaught
    \/ Return
    \/ FinalPrint
    \/ SaveParameters

Spec == Init /\ [][Next]_vars

NextShuffler == While \/ Draw \/ Yield \/ Step \/ Inc

SpecShuffler == InitShuffler /\ [][NextShuffler]_vars

NextTemplates == AppendTemplate \/ ReturnTemplates

SpecTemplates == InitTemplates /\ [][NextTemplates]_vars

\* ------------------------------------------------------------ the claims
\* train_network has returned its loss history to main.
Returned ==
    \/ pc \in {"final", "save", "done"}
    \/ pc = "raised" /\ exc = "IndexError: loss[-1]"

\* main has ended, normally or with an exception.
Ended == pc \in {"done", "raised"}

\* Number of gradient updates parameter n has received.
Updates(n) == params[n].upd

\* C1 as stated: after an interrupt caught in train_network, every trainable
\* parameter has received exactly as many updates as the returned loss
\* history has entries, and the persisted parameters are those parameters.
C1_UpdatesEqualHistory ==
    (Returned /\ caught_at # "") =>
        /\ \A n \in UpdatedParams : Updates(n) = Len(loss)
        /\ saves = 1 => \A n \in ParamNames : saved[n] = params[n]

\* C1 amended: after an interrupt caught in train_network, with N the length
\* of the returned loss history, every trainable parameter has received N
\* updates when the signal arrived at the loop test or during the batch pull,
\* N or N + 1 when it arrived while the step function was being called, and
\* N + 1 when it arrived between the step and the counter increment; the
\* persisted parameters are the parameters as the interrupt left them.
C1_UpdatesWithinOneOfHistory ==
    (Returned /\ caught_at # "") =>
        /\ caught_at \in {"while", "draw"} =>
             \A n \in UpdatedParams : Updates(n) = Len(loss)
        /\ caught_at = "step" =>
             \A n \in UpdatedParams : Updates(n) \in {Len(loss), Len(loss) + 1}
        /\ caught_at = "inc" =>
             \A n \in UpdatedParams : Updates(n) = Len(loss) + 1
        /\ saves = 1 => \A n \in ParamNames : saved[n] = params[n]

\* Interrupted between the step and the increment of the second iteration:
\* two updates persisted, one loss returned.
C1_Witness ==
    /\ pc = "done"
    /\ caught_at = "inc"
    /\ Len(loss) = 1
    /\ \A n \in UpdatedParams : saved[n].upd = 2

\* C2 as stated: in both terminal states of train_network the returned loss
\* history holds the losses of the completed iterations, in order and with
\* no zero padding; its length is the iteration counter, at most
\* num_iterations, num_iterations when no interrupt arrived, and 0 only if
\* the interrupt arrived before the first iteration completed.
C2_HistoryLength ==
    Returned =>
        /\ Len(loss) = n_iter
        /\ Len(loss) <= max_iterations
        /\ caught_at = "" => Len(loss) = max_iterations
        /\ \A i \in 1..Len(loss) : loss[i] = i
        /\ Len(loss) = 0 => (caught_at # "" /\ n_iter = 0)

\* C2 amended: as C2, but the length is 0 only if num_iterations is 0 or the
\* interrupt arrived before the first iteration completed.
C2_HistoryLengthOrZeroRequested ==
    Returned =>
        /\ Len(loss) = n_iter
        /\ Len(loss) <= max_iterations
        /\ caught_at = "" => Len(loss) = max_iterations
        /\ \A i \in 1..Len(loss) : loss[i] = i
        /\ Len(loss) = 0 => (max_iterations = 0 \/ (caught_at # "" /\ n_iter = 0))

\* Interrupted in the second of two requested iterations: one loss returned.
C2_Witness ==
    /\ Returned
    /\ caught_at # ""
    /\ max_iterations = 2
    /\ Len(loss) = 1

\* C3: a run of main whose training loop returned (completed or interrupted)
\* ends with save_parameters invoked exactly once, after the return.
C3_SavedOnceAfterLoop ==
    /\ saves <= 1
    /\ saves = 1 => Returned
    /\ (Ended /\ Returned) => saves = 1

\* C4: the retained rows are exactly the rows whose label the map gives a
\* non-negative value (0 included); so no more rows are retained than were
\* read, and all are retained iff every label is mapped non-negative.
C4_RetainsMappedNonNegative ==
    pc = "pool" =>
      LET MappedNonNegative(i) ==
              labels[i] \in DOMAIN label_map /\ label_map[labels[i]] >= 0
      IN
        /\ data = BoolIndex([i \in 1..Len(labels) |-> i],
                            [i \in 1..Len(labels) |-> MappedNonNegative(i)])
        /\ Len(data) <= Len(labels)
        /\ Len(data) = Len(labels) <=> \A i \in 1..Len(labels) : MappedNonNegative(i)

\* C5: with the quality count floor(max_label / 12) and 12*count + 1
\* templates, every retained label is an index of the template array, so
\* binding the rows to their templates never indexes out of range.
C5_LabelsIndexTemplates ==
    /\ (pc = "bind" /\ y_true # <<>>) =>
          /\ num_qualities = ArrayMax(y_true) \div NumRoots
          /\ Len(templates) = NumRoots * num_qualities + 1
          /\ \A i \in 1..Len(y_true) : 0 <= y_true[i] /\ y_true[i] < Len(templates)
    /\ exc # "IndexError: templates[y_true]"

\* C6: the draws since the last reshuffle never repeat an index, so the N
\* draws that follow a reshuffle visit every index of the dataset exactly
\* once, whatever the batch size and however the draws fall into batches; no
\* row is drawn before the first reshuffle.
C6_EpochIsPermutation ==
    (shuffler = "started" /\ exc = "") =>
        LET N == Len(sh_data)
        IN  /\ Len(epoch) <= N
            /\ \A i, j \in 1..Len(epoch) : epoch[i] = epoch[j] => i = j
            /\ \A i \in 1..Len(epoch) : epoch[i] \in 0..(N - 1)
            /\ Len(epoch) = N => {epoch[i] : i \in 1..N} = 0..(N - 1)
            /\ shuffles = 0 => (epoch = <<>> /\ x_m = <<>> /\ pulls = 0)
            /\ shuffles > 0 => Len(epoch) = read_ptr

\* A three-row epoch completed in the second batch of two.
C6_Witness ==
    /\ shuffler = "started"
    /\ Len(sh_data) = 3
    /\ batch_size = 2
    /\ pulls = 1
    /\ Len(epoch) = 3

\* C7: every batch pulled holds exactly batch_size rows, each with the target
\* of the same dataset row; the generator never fails, and while it is not
\* interrupted the rows it has handed out or holds in the batch being filled
\* are all the rows of the finished epochs plus those read of the current
\* one: a reshuffle happens only when an epoch is used up, in the middle of a
\* batch too, and the batch goes on being filled.
C7_FullBatchesNoRowDropped ==
    /\ exc # "IndexError: sample_idx[read_ptr]"
    /\ pulls > 0 =>
          /\ Len(batch.x) = batch_size
          /\ Len(batch.y) = batch_size
          /\ \A j \in 1..batch_size :
               \E k \in 1..Len(sh_data) :
                 batch.x[j] = sh_data[k] /\ batch.y[j] = sh_labels[k]
    /\ (pc \in {"while", "draw", "step", "inc"} /\ shuffles > 0) =>
          pulls * batch_size + (IF pc = "draw" THEN Len(x_m) ELSE 0)
             = (shuffles - 1) * Len(sh_data) + read_ptr
    /\ pc = "draw" => Len(x_m) = Len(y_m) /\ Len(x_m) <= batch_size

\* A batch of two pulled from a single-row dataset: reshuffled mid-batch.
C7_Witness ==
    /\ pulls = 1
    /\ Len(sh_data) = 1
    /\ batch_size = 2
    /\ shuffles = 2
    /\ Len(batch.x) = 2

\* C9: a step changes no parameter but weights0 and bias0; mu and sigma are
\* written once, from the dataset statistics, before the first training
\* iteration, and not again; the persisted snapshot holds all four
\* parameters with their current values.
C9_StepFrame ==
    /\ [](/\ \A n \in ParamNames : sets[n] <= 1 /\ (n \in {"weights0", "bias0"} => sets[n] = 0)
          /\ pc \in {"train_init", "while", "draw", "step", "inc", "return",
                     "final", "save", "done"} =>
                \A n \in {"mu", "sigma"} : sets[n] = 1 /\ params[n] = stats[n]
          /\ (\E n \in {"mu", "sigma"} : sets[n] = 0) =>
                (pulls = 0 /\ \A n \in ParamNames : Updates(n) = 0)
          /\ saves = 1 => (DOMAIN saved = ParamNames
                           /\ \A n \in ParamNames : saved[n] = params[n]))
    /\ [][pc = "step" =>
            \A n \in ParamNames \ {"weights0", "bias0"} : params'[n] = params[n]]_vars

\* A completed two-iteration run, saved with mu and sigma as set.
C9_Witness ==
    /\ pc = "done"
    /\ caught_at = ""
    /\ saved["weights0"].upd = 2
    /\ saved["mu"] = stats.mu
    /\ saved["sigma"] = stats.sigma

\* C10: when no row survives the filter, prepare_training_data raises and
\* main ends there: no generator is returned, no batch pulled, no parameter
\* set or updated, nothing saved.
C10_NoRowsAborts ==
    (pc # "prepare" /\ y_true = <<>>) =>
        /\ pc \in {"pool", "raised"}
        /\ pc = "raised" => exc = "ValueError: y_true.max()"
        /\ shuffler = "none"
        /\ pulls = 0
        /\ params = InitialParams
        /\ saves = 0

\* Rows were read, none survived, the run has ended with the exception.
C10_Witness ==
    /\ pc = "raised"
    /\ exc = "ValueError: y_true.max()"
    /\ Len(labels) = 2
    /\ y_true = <<>>

\* C8: for every quality count Q in 0..13 the returned array holds exactly
\* 12*Q + 1 templates in quality-major order: the template at index 12*q + r
\* is non-zero at position p exactly when the membership string of quality q
\* has a 1 at position (p - r) mod 12, and the template at index 12*Q is the
\* uniform no-chord vector (every entry 1/12).
C8_TemplatesAreRotations ==
    pc = "bind" =>
        /\ Len(templates) = NumRoots * num_qualities + 1
        /\ \A q \in 0..(num_qualities - 1) :
             \A r \in 0..(NumRoots - 1) :
               \A p \in 0..(NumRoots - 1) :
                 (At(templates, NumRoots * q + r)[p].num # 0)
                    <=> (At(QUALITY_MAP[At(QUALITIES, q)], (p - r) % NumRoots) = "1")
        /\ \A p \in 0..(NumRoots - 1) :
             At(templates, NumRoots * num_qualities)[p] = [num |-> 1, den |-> NumRoots]

\* The whole vocabulary has been generated: 157 templates.
C8_Witness ==
    /\ pc = "bind"
    /\ num_qualities = Len(QUALITIES)
    /\ Len(templates) = NumRoots * Len(QUALITIES) + 1

====
